---- MODULE Spec2Model ----
(***************************************************************************)
(* Model of the transaction annotation resolver,                           *)
(* src/background/services/enrichment/transactions.ts:                     *)
(* resolveTransactionAnnotation and annotationsFromLogs.                   *)
(*                                                                         *)
(* One run of resolveTransactionAnnotation is a state machine whose        *)
(* positions are the awaits of the async function.  Collaborator calls     *)
(* (chain service, indexing service, name service) settle                  *)
(* nondeterministically: fulfilled with a value drawn from a small set, or *)
(* rejected.  A rejected await that the code does not catch ends the run   *)
(* in pc = "thrown".                                                       *)
(*                                                                         *)
(* Optional values (undefined in the source) are sequences of length at    *)
(* most one: None is "absent", Some(x) is "present with value x".          *)
(***************************************************************************)
EXTENDS Integers, Sequences, FiniteSets, TLC

None == <<>>
Some(x) == <<x>>
IsSome(o) == Len(o) > 0
Get(o) == o[1]

\* The ?? operator of the source: the left operand unless it is undefined.
OrElse(o, d) == IF IsSome(o) THEN Get(o) ELSE d

\* JavaScript truthiness of an optional bigint: undefined and 0n are falsy.
TruthyBigInt(o) == IsSome(o) /\ Get(o) # 0

\* JavaScript truthiness of an optional string: undefined and "" are falsy.
TruthyString(o) == IsSome(o) /\ Get(o) # ""

RECURSIVE SeqFilterIdx(_, _, _)
\* The indices i of s, ascending from k, whose element satisfies Keep.
SeqFilterIdx(s, Keep(_), k) ==
    IF k > Len(s) THEN <<>>
    ELSE IF Keep(s[k]) THEN <<k>> \o SeqFilterIdx(s, Keep, k + 1)
    ELSE SeqFilterIdx(s, Keep, k + 1)

Range(s) == {s[i] : i \in 1..Len(s)}

(***************************************************************************)
(* Bounds of the model.                                                    *)
(***************************************************************************)
MaxLogs == 2
MaxBalance == 3
MaxValue == 1

(***************************************************************************)
(* Addresses.  Mixed-case (checksummed) and lower-case forms of the same   *)
(* address are different strings that normalise to the same string.        *)
(***************************************************************************)
normalizeEVMAddress(a) ==
    CASE a = "0xToKeN" -> "0xtoken"
      [] a = "0xAlIcE" -> "0xalice"
      [] OTHER -> a

sameEVMAddress(a, b) ==
    /\ IsSome(a)
    /\ IsSome(b)
    /\ normalizeEVMAddress(Get(a)) = normalizeEVMAddress(Get(b))

(***************************************************************************)
(* The asset catalog returned by indexingService.getCachedAssets: the      *)
(* network's base asset (no contract), a token with a logo, a wrapped      *)
(* asset without a logo.                                                   *)
(***************************************************************************)
BaseAsset ==
    [symbol |-> "ETH", decimals |-> 2, contractAddress |-> None, logoURL |-> None]
TokenAsset ==
    [symbol |-> "TKN", decimals |-> 1, contractAddress |-> Some("0xToKeN"),
     logoURL |-> Some("tkn.png")]
WrappedAsset ==
    [symbol |-> "WETH", decimals |-> 2, contractAddress |-> Some("0xweth"),
     logoURL |-> None]

CachedAssets == <<BaseAsset, TokenAsset, WrappedAsset>>

isSmartContractFungibleAsset(asset) == IsSome(asset.contractAddress)

\* assets.find(...): the first contract-backed fungible asset at the address.
MatchingFungibleAsset(assets, address) ==
    LET hits == SeqFilterIdx(assets,
                    LAMBDA asset : /\ isSmartContractFungibleAsset(asset)
                                   /\ sameEVMAddress(asset.contractAddress, address),
                    1)
    IN IF hits = <<>> THEN None ELSE Some(assets[hits[1]])

DesiredDecimals == 1

RECURSIVE Pow10(_)
Pow10(n) == IF n = 0 THEN 1 ELSE 10 * Pow10(n - 1)

\* The asset amount with its decimal value: the raw amount divided by
\* 10^decimals, kept as a fixed-point number of desiredDecimals digits.
enrichAssetAmountWithDecimalValues(assetAmount, desiredDecimals) ==
    [asset |-> assetAmount.asset,
     amount |-> assetAmount.amount,
     decimalAmount |->
        (assetAmount.amount * Pow10(desiredDecimals))
            \div Pow10(assetAmount.asset.decimals)]

(***************************************************************************)
(* Call data.  The input of a transaction is undefined, null, the empty    *)
(* hex string "0x", or data: a selector followed by ABI-encoded arguments. *)
(* Data is kept in decoded form; an argument the data is too short to hold *)
(* is None.                                                                *)
(***************************************************************************)
CallData(form, selector, from, to, spender, amount) ==
    [form |-> form, selector |-> selector, from |-> from, to |-> to,
     spender |-> spender, amount |-> amount]

NoArgs == [from |-> None, to |-> None, spender |-> None, amount |-> None, value |-> None]

\* The decoded ERC-20 call of the input, or None when the selector is not one
\* of transfer, transferFrom, approve or the arguments do not decode.
parseERC20Tx(input) ==
    IF input.form # "data" THEN None
    ELSE IF input.selector = "transfer" /\ IsSome(input.to) /\ IsSome(input.amount)
    THEN Some([name |-> "transfer",
               args |-> [NoArgs EXCEPT !.to = input.to, !.amount = input.amount]])
    ELSE IF /\ input.selector = "transferFrom"
            /\ IsSome(input.from) /\ IsSome(input.to) /\ IsSome(input.amount)
    THEN Some([name |-> "transferFrom",
               args |-> [NoArgs EXCEPT !.from = input.from, !.to = input.to,
                                       !.amount = input.amount]])
    ELSE IF input.selector = "approve" /\ IsSome(input.spender) /\ IsSome(input.amount)
    THEN Some([name |-> "approve",
               args |-> [NoArgs EXCEPT !.spender = input.spender,
                                       !.value = input.amount]])
    ELSE None

EmptyInputs ==
    {CallData(f, "", None, None, None, None) : f \in {"undefined", "null", "0x"}}

\* Decodable and undecodable call data: transfers to a third party and to the
\* token contract itself, an approval, an unknown selector, a truncated transfer.
DataInputs ==
    {CallData("data", "transfer", None, Some(t), None, Some(5)) :
        t \in {"0xbob", "0xToKeN"}}
    \cup {CallData("data", "transferFrom", Some("0xcarol"), Some(t), None, Some(7)) :
        t \in {"0xbob", "0xtoken"}}
    \cup {CallData("data", "approve", None, None, Some("0xbob"), Some(9)),
          CallData("data", "other", None, None, None, None),
          CallData("data", "transfer", None, Some("0xbob"), None, None)}

(***************************************************************************)
(* Event logs and the transfers parsed from them.  index is the position   *)
(* of the log in the transaction's log list; it is carried along so that   *)
(* a transfer names the log it was parsed from.                            *)
(***************************************************************************)
EVMLog(contractAddress, topic, src, dst, amount) ==
    [contractAddress |-> contractAddress, topic |-> topic, src |-> src,
     dst |-> dst, amount |-> amount]

LogUniverse ==
    { EVMLog("0xtoken", "Transfer", "0xbob", "0xAlIcE", 11),
      EVMLog("0xtoken", "Transfer", "0xbob", "0xcarol", 12),
      EVMLog("0xtoken", "Transfer", "0xalice", "0xbob", 13),
      EVMLog("0xdead", "Transfer", "0xalice", "0xbob", 14),
      EVMLog("0xweth", "Deposit", "", "0xalice", 15),
      EVMLog("0xweth", "Withdrawal", "0xcarol", "", 16),
      EVMLog("0xtoken", "Approval", "0xalice", "0xbob", 17) }

\* All sequences over S of length at most n.
SeqsUpTo(S, n) == UNION {[1..k -> S] : k \in 0..n}

TransferLog(contractAddress, amount, senderAddress, recipientAddress, index) ==
    [contractAddress |-> contractAddress, amount |-> amount,
     senderAddress |-> senderAddress, recipientAddress |-> recipientAddress,
     index |-> index]

RECURSIVE MapIdx(_, _, _)
\* <<F(s, idx[1]), ..., F(s, idx[n])>> from position k of idx on.
MapIdx(idx, F(_), k) ==
    IF k > Len(idx) THEN <<>> ELSE <<F(idx[k])>> \o MapIdx(idx, F, k + 1)

\* Standard token transfer events, in log order.
parseLogsForERC20Transfers(logs) ==
    MapIdx(SeqFilterIdx(logs, LAMBDA l : l.topic = "Transfer", 1),
           LAMBDA i : TransferLog(logs[i].contractAddress, logs[i].amount,
                                  logs[i].src, logs[i].dst, i),
           1)

\* Wrapped-asset deposits and withdrawals, in log order: the wrapping
\* contract is the asset contract and the counterparty of the account.
parseLogsForWrappedDepositsAndWithdrawals(logs) ==
    MapIdx(SeqFilterIdx(logs, LAMBDA l : l.topic \in {"Deposit", "Withdrawal"}, 1),
           LAMBDA i : IF logs[i].topic = "Deposit"
                      THEN TransferLog(logs[i].contractAddress, logs[i].amount,
                                       logs[i].contractAddress, logs[i].dst, i)
                      ELSE TransferLog(logs[i].contractAddress, logs[i].amount,
                                       logs[i].src, logs[i].contractAddress, i),
           1)

\* A variant of lines 44-47 that spreads the wrapped-asset transfers first.
TokenTransferLogs_WrappedFirst(logs) ==
    parseLogsForWrappedDepositsAndWithdrawals(logs) \o parseLogsForERC20Transfers(logs)

\* Lines 44-47: the standard transfers followed by the wrapped-asset ones.
TokenTransferLogs(logs) ==
    parseLogsForERC20Transfers(logs) \o parseLogsForWrappedDepositsAndWithdrawals(logs)

\* The transfers whose sender or recipient is one of the addresses,
\* compared case-insensitively, in their order.
getERC20LogsForAddresses(transferLogs, addresses) ==
    MapIdx(SeqFilterIdx(transferLogs,
                LAMBDA t : \E a \in Range(addresses) :
                             \/ sameEVMAddress(Some(t.senderAddress), Some(a))
                             \/ sameEVMAddress(Some(t.recipientAddress), Some(a)),
                1),
           LAMBDA i : transferLogs[i], 1)

\* The recipient addresses of the transfers, each string once, in order of
\* first occurrence ([...new Set(...)]).
getDistinctRecipentAddressesFromERC20Logs(transferLogs) ==
    MapIdx(SeqFilterIdx([i \in 1..Len(transferLogs) |->
                            [at |-> i, address |-> transferLogs[i].recipientAddress]],
                LAMBDA e : \A j \in 1..(e.at - 1) :
                             transferLogs[j].recipientAddress # e.address,
                1),
           LAMBDA i : transferLogs[i].recipientAddress, 1)

(***************************************************************************)
(* Transactions: requests, pending and mined transactions.                 *)
(***************************************************************************)
Transaction(from, to, input, value, fees, blockHash, logs) ==
    [from |-> from, to |-> to, input |-> input, value |-> value,
     gasLimit |-> fees[1], maxFeePerGas |-> fees[2],
     maxPriorityFeePerGas |-> fees[3], blockHash |-> blockHash, logs |-> logs]

\* Gas limit and fee fields: none present (not a request), all present and
\* positive, and every way for one field to be absent or present with 0.
FeeFields ==
    {<<None, None, None>>, <<Some(2), Some(1), Some(1)>>}
    \cup {<<g, Some(1), Some(1)>> : g \in {None, Some(0)}}
    \cup {<<Some(2), f, Some(1)>> : f \in {None, Some(0)}}
    \cup {<<Some(2), Some(1), p>> : p \in {None, Some(0)}}

Recipients == {None, Some("0xtoken"), Some("0xweth"), Some("0xbob")}
Values == {None} \cup {Some(v) : v \in 0..MaxValue}
BlockHashes == {None, Some("0xb10c")}

\* Every combination of the fields the primary classification reads, without
\* logs and with a single log.
Transactions ==
    {Transaction("0xalice", to, input, value, fees, blockHash, logs) :
        to \in Recipients, input \in EmptyInputs \cup DataInputs, value \in Values,
        fees \in FeeFields, blockHash \in BlockHashes,
        logs \in {None,
                  Some(<<EVMLog("0xtoken", "Transfer", "0xbob", "0xAlIcE", 11)>>)}}

\* A request that deploys a contract, a mined token transfer and a mined
\* plain send, each with every log list of at most MaxLogs logs.
TransactionsWithLogs ==
    {Transaction("0xalice", p[1], p[2], p[3], p[4], p[5], Some(logs)) :
        p \in {<<None, CallData("data", "other", None, None, None, None), None,
                 <<Some(2), Some(1), Some(1)>>, None>>,
               <<Some("0xtoken"),
                 CallData("data", "transfer", None, Some("0xbob"), None, Some(5)),
                 None, <<None, None, None>>, Some("0xb10c")>>,
               <<Some("0xbob"), CallData("0x", "", None, None, None, None), Some(1),
                 <<None, None, None>>, Some("0xb10c")>>},
        logs \in SeqsUpTo(LogUniverse, MaxLogs)}

\* The accounts chainService.getAccountsToTrack may report.
TrackedAccounts == {<<>>, <<"0xalice">>}

\* The name the name service resolves an address to, when it resolves it.
ResolvedName(address) ==
    CASE normalizeEVMAddress(address) = "0xalice" -> "alice.eth"
      [] normalizeEVMAddress(address) = "0xbob" -> "bob.eth"
      [] normalizeEVMAddress(address) = "0xtoken" -> "token.eth"
      [] normalizeEVMAddress(address) = "0xweth" -> "weth.eth"
      [] OTHER -> "carol.eth"

\* Date.now() at line 132 and the timestamp of the fetched block.
Now == 1000
BlockTimestamp == 900

(***************************************************************************)
(* Annotations.                                                            *)
(***************************************************************************)
\* Lines 129-134: by default, a contract interaction; every other field is
\* undefined.
DefaultAnnotation ==
    [type |-> "contract-interaction", timestamp |-> Now,
     blockTimestamp |-> None, warnings |-> None, senderAddress |-> None,
     recipientAddress |-> None, recipientName |-> None, assetAmount |-> None,
     spenderAddress |-> None, spenderName |-> None, contractName |-> None,
     transactionLogoURL |-> None, subannotations |-> None]

\* Line 142: a transaction request carries a truthy gas limit and fee fields.
IsTransactionRequest(t) ==
    /\ TruthyBigInt(t.gasLimit)
    /\ TruthyBigInt(t.maxFeePerGas)
    /\ TruthyBigInt(t.maxPriorityFeePerGas)

\* Line 143.
GasFee(t) == Get(t.gasLimit) * Get(t.maxFeePerGas)

\* Line 152.
ExceedsBalance(t, baseAssetBalance) ==
    GasFee(t) + OrElse(t.value, 0) > baseAssetBalance

\* Lines 153-154: warnings ??= []; warnings.push(w).
PushWarning(annotation, w) ==
    [annotation EXCEPT !.warnings = Some(OrElse(@, <<>>) \o <<w>>)]

\* Line 159.
IsMined(t) == TruthyString(t.blockHash)

\* A variant of lines 161-164 that leaves the annotation as it was.
WithBlockTimestamp_Dropped(annotation, blk) == annotation

\* Lines 161-164: block?.timestamp.
WithBlockTimestamp(annotation, blk) ==
    [annotation EXCEPT
        !.blockTimestamp = IF IsSome(blk) THEN Some(Get(blk).timestamp) ELSE None]

\* Line 168.
IsContractDeployment(t) == ~IsSome(t.to)

\* Lines 174-176.
HasNoData(t) == t.input.form \in {"null", "0x", "undefined"}

\* A variant of line 193 that tests the value for truthiness.
HasValue_Truthy(t) == TruthyBigInt(t.value)

\* Line 193.
HasValue(t) == IsSome(t.value)

\* Lines 219-223.
TransactionAsset(t) == MatchingFungibleAsset(CachedAssets, t.to)

\* Line 225: matchingFungibleAsset?.metadata?.logoURL.
TransactionLogoURL(t) ==
    IF IsSome(TransactionAsset(t)) THEN Get(TransactionAsset(t)).logoURL ELSE None

\* Lines 230-234.
IsTokenTransfer(t) ==
    /\ IsSome(TransactionAsset(t))
    /\ IsSome(parseERC20Tx(t.input))
    /\ Get(parseERC20Tx(t.input)).name \in {"transfer", "transferFrom"}

\* Line 260.
IsTokenApproval(t) ==
    /\ IsSome(TransactionAsset(t))
    /\ IsSome(parseERC20Tx(t.input))
    /\ Get(parseERC20Tx(t.input)).name = "approve"

\* The branch of the primary classification, lines 167-297.
Branch(t) ==
    IF IsContractDeployment(t) THEN "deployment"
    ELSE IF HasNoData(t) THEN "no-data"
    ELSE IF IsTokenTransfer(t) THEN "token-transfer"
    ELSE IF IsTokenApproval(t) THEN "token-approval"
    ELSE "fallback"

\* A variant of lines 261-264 and 235-238 that looks up the transaction
\* recipient in every branch.
LookupAddress_Recipient(t) == Get(t.to)

\* The address handed to nameService.lookUpName by the primary
\* classification: lines 181-184, 235-238, 261-264 and 281-284.
LookupAddress(t) ==
    IF Branch(t) = "token-transfer" THEN Get(Get(parseERC20Tx(t.input)).args.to)
    ELSE IF Branch(t) = "token-approval"
    THEN Get(Get(parseERC20Tx(t.input)).args.spender)
    ELSE Get(t.to)

\* A variant of line 245 that ignores the decoded from.
TransferSender_TransactionFrom(t) == t.from

\* Line 245: erc20Tx.args.from ?? transaction.from.
TransferSender(t) == OrElse(Get(parseERC20Tx(t.input)).args.from, t.from)

\* A variant of line 257 that compares the two strings as they are.
SendsToToken_CaseSensitive(t) == Get(parseERC20Tx(t.input)).args.to = t.to

\* Line 257.
SendsToToken(t) == sameEVMAddress(Get(parseERC20Tx(t.input)).args.to, t.to)

\* A variant of lines 169-172 that leaves the default type in place.
AnnotateDeployment_DefaultType(annotation) == annotation

\* Lines 169-172.
AnnotateDeployment(annotation) == [annotation EXCEPT !.type = "contract-deployment"]

\* A variant of lines 194-207 that also names the contract of a plain send.
AnnotateNoData_ContractName(annotation, t, toName) ==
    IF IsSome(t.value)
    THEN [annotation EXCEPT
            !.type = "asset-transfer",
            !.senderAddress = Some(t.from),
            !.recipientName = toName,
            !.contractName = toName,
            !.recipientAddress = t.to,
            !.assetAmount = Some(enrichAssetAmountWithDecimalValues(
                                [asset |-> BaseAsset, amount |-> Get(t.value)],
                                DesiredDecimals))]
    ELSE [annotation EXCEPT !.contractName = toName]

\* Lines 193-214: a transaction without data.
AnnotateNoData(annotation, t, toName) ==
    IF HasValue(t)
    THEN [annotation EXCEPT
            !.type = "asset-transfer",
            !.senderAddress = Some(t.from),
            !.recipientName = toName,
            !.recipientAddress = t.to,
            !.assetAmount = Some(enrichAssetAmountWithDecimalValues(
                                [asset |-> BaseAsset, amount |-> Get(t.value)],
                                DesiredDecimals))]
    ELSE [annotation EXCEPT !.contractName = toName]

\* Lines 241-259: an ERC-20 transfer, with the warning of line 258.
AnnotateTokenTransfer(annotation, t, toName) ==
    LET erc20Tx == Get(parseERC20Tx(t.input))
        transfer ==
            [annotation EXCEPT
                !.type = "asset-transfer",
                !.transactionLogoURL = TransactionLogoURL(t),
                !.senderAddress = Some(TransferSender(t)),
                !.recipientAddress = erc20Tx.args.to,
                !.recipientName = toName,
                !.assetAmount = Some(enrichAssetAmountWithDecimalValues(
                                    [asset |-> Get(TransactionAsset(t)),
                                     amount |-> Get(erc20Tx.args.amount)],
                                    DesiredDecimals))]
    IN IF SendsToToken(t)
       THEN [transfer EXCEPT !.warnings = Some(<<"send-to-token">>)]
       ELSE transfer

\* Lines 266-279: an ERC-20 approval.
AnnotateTokenApproval(annotation, t, spenderName) ==
    LET erc20Tx == Get(parseERC20Tx(t.input))
    IN [annotation EXCEPT
            !.type = "asset-approval",
            !.transactionLogoURL = TransactionLogoURL(t),
            !.spenderAddress = erc20Tx.args.spender,
            !.spenderName = spenderName,
            !.assetAmount = Some(enrichAssetAmountWithDecimalValues(
                                [asset |-> Get(TransactionAsset(t)),
                                 amount |-> Get(erc20Tx.args.value)],
                                DesiredDecimals))]

\* A variant of lines 287-295 that leaves the logo out.
AnnotateFallback_NoLogo(annotation, t, toName) ==
    [annotation EXCEPT !.type = "contract-interaction", !.contractName = toName]

\* Lines 287-295: the fall back on a standard contract interaction.
AnnotateFallback(annotation, t, toName) ==
    [annotation EXCEPT
        !.type = "contract-interaction",
        !.transactionLogoURL = TransactionLogoURL(t),
        !.contractName = toName]

\* The annotation once the name lookup of the branch has resolved to name.
Annotate(annotation, t, name) ==
    IF Branch(t) = "no-data" THEN AnnotateNoData(annotation, t, name)
    ELSE IF Branch(t) = "token-transfer" THEN AnnotateTokenTransfer(annotation, t, name)
    ELSE IF Branch(t) = "token-approval" THEN AnnotateTokenApproval(annotation, t, name)
    ELSE AnnotateFallback(annotation, t, name)

(***************************************************************************)
(* annotationsFromLogs, lines 28-110.                                      *)
(***************************************************************************)
\* One name lookup of the fan-out of lines 56-64.
Lookup(address) == [address |-> address, state |-> "pending", name |-> None]

\* Lines 49-63: one lookup per distinct recipient of the relevant transfers.
IssuedLookups(logs, addresses) ==
    LET distinct == getDistinctRecipentAddressesFromERC20Logs(
                        getERC20LogsForAddresses(TokenTransferLogs(logs), addresses))
    IN [i \in 1..Len(distinct) |-> Lookup(distinct[i])]

\* A variant of line 56 that resolves on the first rejection, as Promise.all
\* settles.
AllSettledNow_FirstRejection(lkps) ==
    \/ \A i \in 1..Len(lkps) : lkps[i].state # "pending"
    \/ \E i \in 1..Len(lkps) : lkps[i].state = "rejected"

\* Promise.allSettled resolves once no lookup is pending.
AllSettledNow(lkps) == \A i \in 1..Len(lkps) : lkps[i].state # "pending"

\* Lines 54-69: namesByAddress[key]. The entries are those of the fulfilled
\* lookups with a defined name, in the order the lookups were issued; a later
\* entry of the same key replaces an earlier one.
NameByAddress(lkps, key) ==
    LET hits == SeqFilterIdx(lkps,
                    LAMBDA l : /\ l.state = "fulfilled"
                               /\ IsSome(l.name)
                               /\ normalizeEVMAddress(l.address) = key,
                    1)
    IN IF hits = <<>> THEN None ELSE lkps[hits[Len(hits)]].name

\* Lines 74-82: the transfers of the flatMap that yield a sub-annotation.
MatchedTransfers(transferLogs, assets) ==
    MapIdx(SeqFilterIdx(transferLogs,
                LAMBDA t : IsSome(MatchingFungibleAsset(assets, Some(t.contractAddress))),
                1),
           LAMBDA i : transferLogs[i], 1)

\* A variant of lines 89-105 without line 104.
Subannotation_NoBlockTimestamp(t, assets, lkps, resolvedTime, blk) ==
    [type |-> "asset-transfer",
     assetAmount |-> enrichAssetAmountWithDecimalValues(
                        [asset |-> Get(MatchingFungibleAsset(assets, Some(t.contractAddress))),
                         amount |-> t.amount],
                        DesiredDecimals),
     senderAddress |-> t.senderAddress,
     recipientAddress |-> t.recipientAddress,
     recipientName |-> NameByAddress(lkps, normalizeEVMAddress(t.recipientAddress)),
     timestamp |-> resolvedTime,
     blockTimestamp |-> None]

\* Lines 89-105.
Subannotation(t, assets, lkps, resolvedTime, blk) ==
    [type |-> "asset-transfer",
     assetAmount |-> enrichAssetAmountWithDecimalValues(
                        [asset |-> Get(MatchingFungibleAsset(assets, Some(t.contractAddress))),
                         amount |-> t.amount],
                        DesiredDecimals),
     senderAddress |-> t.senderAddress,
     recipientAddress |-> t.recipientAddress,
     recipientName |-> NameByAddress(lkps, normalizeEVMAddress(t.recipientAddress)),
     timestamp |-> resolvedTime,
     blockTimestamp |-> IF IsSome(blk) THEN Some(Get(blk).timestamp) ELSE None]

\* Lines 71-109: the flatMap runs over tokenTransferLogs.
Subannotations(logs, assets, lkps, resolvedTime, blk) ==
    LET matched == MatchedTransfers(TokenTransferLogs(logs), assets)
    IN [i \in 1..Len(matched) |->
            Subannotation(matched[i], assets, lkps, resolvedTime, blk)]

\* The log each sub-annotation was derived from: the transfer of
\* sub-annotation i.
SubannotationSources(logs, assets) ==
    MatchedTransfers(TokenTransferLogs(logs), assets)

\* A variant of lines 312-314 that attaches the list without the length test.
AttachSubannotations_Always(annotation, subs) ==
    [annotation EXCEPT !.subannotations = Some(subs)]

\* Lines 312-314.
AttachSubannotations(annotation, subs) ==
    IF Len(subs) > 0 THEN [annotation EXCEPT !.subannotations = Some(subs)]
    ELSE annotation

(***************************************************************************)
(* State.                                                                  *)
(***************************************************************************)
VARIABLES
    tx,                \* the transaction being annotated (read-only input)
    pc,                \* the await the run is at, "done" or "thrown"
    txAnnotation,      \* the annotation under construction; returned at "done"
    block,             \* the fetched block, if any
    baseAssetBalance,  \* the balance the chain service reported, if any
    toName,            \* the name the primary lookup resolved to, if any
    accountAddresses,  \* the tracked accounts the chain service reported, if any
    lookups,           \* the fan-out of name lookups of annotationsFromLogs
    settleOrder,       \* the order in which the lookups of the fan-out settled
    sources,           \* the transfer each attached sub-annotation came from
    calls,             \* number of collaborator calls issued, per kind
    rejected           \* the collaborator call whose rejection ended the run

vars == <<tx, pc, txAnnotation, block, baseAssetBalance, toName, accountAddresses,
          lookups, settleOrder, sources, calls, rejected>>

NoCalls == [balance |-> 0, block |-> 0, name |-> 0, assets |-> 0, accounts |-> 0,
            fanout |-> 0]

InitWith(transactions) ==
    /\ tx \in transactions
    /\ pc = "start"
    /\ txAnnotation = DefaultAnnotation
    /\ block = None
    /\ baseAssetBalance = None
    /\ toName = None
    /\ accountAddresses = None
    /\ lookups = <<>>
    /\ settleOrder = <<>>
    /\ sources = <<>>
    /\ calls = NoCalls
    /\ rejected = "none"

Init == InitWith(Transactions)

InitLogs == InitWith(TransactionsWithLogs)

\* An awaited call rejects and nothing catches it: the run ends, no annotation
\* is returned.
Throw(call) ==
    /\ pc' = "thrown"
    /\ rejected' = call
    /\ UNCHANGED <<tx, txAnnotation, block, baseAssetBalance, toName, accountAddresses,
                   lookups, settleOrder, sources, calls>>

(***************************************************************************)
(* resolveTransactionAnnotation, lines 116-318.                            *)
(***************************************************************************)
\* Lines 138-149: a transaction request asks for the sender's balance.
CheckRequest ==
    /\ pc = "start"
    /\ IF IsTransactionRequest(tx)
       THEN /\ pc' = "balance"
            /\ calls' = [calls EXCEPT !.balance = @ + 1]
       ELSE /\ pc' = "mined"
            /\ UNCHANGED calls
    /\ UNCHANGED <<tx, txAnnotation, block, baseAssetBalance, toName, accountAddresses,
                   lookups, settleOrder, sources, rejected>>

\* A variant of lines 152-155 that returns the default annotation with the
\* warning as soon as the balance does not cover the fee.
BalanceFulfilled_ReturnsEarly ==
    /\ pc = "balance"
    /\ \E balance \in 0..MaxBalance :
        /\ baseAssetBalance' = Some(balance)
        /\ IF ExceedsBalance(tx, balance)
           THEN /\ txAnnotation' = PushWarning(txAnnotation, "insufficient-funds")
                /\ pc' = "done"
           ELSE /\ txAnnotation' = txAnnotation
                /\ pc' = "mined"
    /\ UNCHANGED <<tx, block, toName, accountAddresses, lookups, settleOrder,
                   sources, calls, rejected>>

\* Lines 144-156: getLatestBaseAccountBalance resolves.
BalanceFulfilled ==
    /\ pc = "balance"
    /\ \E balance \in 0..MaxBalance :
        /\ baseAssetBalance' = Some(balance)
        /\ txAnnotation' = IF ExceedsBalance(tx, balance)
                           THEN PushWarning(txAnnotation, "insufficient-funds")
                           ELSE txAnnotation
    /\ pc' = "mined"
    /\ UNCHANGED <<tx, block, toName, accountAddresses, lookups, settleOrder,
                   sources, calls, rejected>>

\* Line 146: getLatestBaseAccountBalance rejects.
BalanceRejected ==
    /\ pc = "balance"
    /\ Throw("balance")

\* Lines 158-160: a mined transaction asks for its block.
CheckMined ==
    /\ pc = "mined"
    /\ IF IsMined(tx)
       THEN /\ pc' = "block"
            /\ calls' = [calls EXCEPT !.block = @ + 1]
       ELSE /\ pc' = "classify"
            /\ UNCHANGED calls
    /\ UNCHANGED <<tx, txAnnotation, block, baseAssetBalance, toName, accountAddresses,
                   lookups, settleOrder, sources, rejected>>

\* Lines 160-165: getBlockData resolves.
BlockFulfilled ==
    /\ pc = "block"
    /\ block' = Some([timestamp |-> BlockTimestamp])
    /\ txAnnotation' = WithBlockTimestamp(txAnnotation, block')
    /\ pc' = "classify"
    /\ UNCHANGED <<tx, baseAssetBalance, toName, accountAddresses, lookups,
                   settleOrder, sources, calls, rejected>>

\* Line 160: getBlockData rejects.
BlockRejected ==
    /\ pc = "block"
    /\ Throw("block")

\* Lines 167-216: a deployment is classified at once; a transaction without
\* data looks up the recipient's name; any other asks for the asset catalog.
Classify ==
    /\ pc = "classify"
    /\ IF Branch(tx) = "deployment"
       THEN /\ txAnnotation' = AnnotateDeployment(txAnnotation)
            /\ pc' = "logs"
            /\ UNCHANGED calls
       ELSE IF Branch(tx) = "no-data"
       THEN /\ pc' = "name"
            /\ calls' = [calls EXCEPT !.name = @ + 1]
            /\ UNCHANGED txAnnotation
       ELSE /\ pc' = "assets"
            /\ calls' = [calls EXCEPT !.assets = @ + 1]
            /\ UNCHANGED txAnnotation
    /\ UNCHANGED <<tx, block, baseAssetBalance, toName, accountAddresses, lookups,
                   settleOrder, sources, rejected>>

\* Lines 216-238, 260-264, 280-284: the catalog arrives, the call data is
\* decoded and the name lookup of the branch is issued.
AssetsFulfilled ==
    /\ pc = "assets"
    /\ pc' = "name"
    /\ calls' = [calls EXCEPT !.name = @ + 1]
    /\ UNCHANGED <<tx, txAnnotation, block, baseAssetBalance, toName, accountAddresses,
                   lookups, settleOrder, sources, rejected>>

\* Line 216: getCachedAssets rejects.
AssetsRejected ==
    /\ pc = "assets"
    /\ Throw("assets")

\* Lines 181-214, 235-259, 261-279, 281-296: lookUpName resolves, to a name
\* or to no result.
NameFulfilled ==
    /\ pc = "name"
    /\ \E name \in {None, Some(ResolvedName(LookupAddress(tx)))} :
        /\ toName' = name
        /\ txAnnotation' = Annotate(txAnnotation, tx, name)
    /\ pc' = "logs"
    /\ UNCHANGED <<tx, block, baseAssetBalance, accountAddresses, lookups,
                   settleOrder, sources, calls, rejected>>

\* A variant of lines 181, 235, 261, 281 that asks again after a rejection.
NameRejected_Retry ==
    /\ pc = "name"
    /\ calls.name < 2
    /\ calls' = [calls EXCEPT !.name = @ + 1]
    /\ UNCHANGED <<tx, pc, txAnnotation, block, baseAssetBalance, toName,
                   accountAddresses, lookups, settleOrder, sources, rejected>>

\* Lines 181, 235, 261, 281: lookUpName rejects.
NameRejected ==
    /\ pc = "name"
    /\ Throw("name")

\* Lines 299-301 and 38, 317: with logs, annotationsFromLogs asks for the
\* catalog; without, the annotation is returned.
CheckLogs ==
    /\ pc = "logs"
    /\ IF IsSome(tx.logs)
       THEN /\ pc' = "log-assets"
            /\ calls' = [calls EXCEPT !.assets = @ + 1]
       ELSE /\ pc' = "done"
            /\ UNCHANGED calls
    /\ UNCHANGED <<tx, txAnnotation, block, baseAssetBalance, toName, accountAddresses,
                   lookups, settleOrder, sources, rejected>>

\* Lines 38-40: the catalog arrives, the tracked accounts are asked for.
LogAssetsFulfilled ==
    /\ pc = "log-assets"
    /\ pc' = "accounts"
    /\ calls' = [calls EXCEPT !.accounts = @ + 1]
    /\ UNCHANGED <<tx, txAnnotation, block, baseAssetBalance, toName, accountAddresses,
                   lookups, settleOrder, sources, rejected>>

\* Line 38: getCachedAssets rejects.
LogAssetsRejected ==
    /\ pc = "log-assets"
    /\ Throw("assets")

\* Lines 40-64: the tracked accounts arrive; the logs are parsed and filtered
\* and one name lookup per distinct recipient is issued.
AccountsFulfilled ==
    /\ pc = "accounts"
    /\ \E addresses \in TrackedAccounts :
        /\ accountAddresses' = Some(addresses)
        /\ lookups' = IssuedLookups(Get(tx.logs), addresses)
    /\ calls' = [calls EXCEPT !.fanout = @ + Len(lookups')]
    /\ pc' = "lookups"
    /\ UNCHANGED <<tx, txAnnotation, block, baseAssetBalance, toName, settleOrder,
                   sources, rejected>>

\* Line 40: getAccountsToTrack rejects.
AccountsRejected ==
    /\ pc = "accounts"
    /\ Throw("accounts")

\* Lines 58-63: one lookup of the fan-out resolves, to a name or to no result.
LookupFulfilled ==
    /\ pc = "lookups"
    /\ \E i \in 1..Len(lookups) :
        /\ lookups[i].state = "pending"
        /\ \E name \in {None, Some(ResolvedName(lookups[i].address))} :
            lookups' = [lookups EXCEPT ![i].state = "fulfilled", ![i].name = name]
        /\ settleOrder' = Append(settleOrder, i)
    /\ UNCHANGED <<tx, pc, txAnnotation, block, baseAssetBalance, toName, accountAddresses,
                   sources, calls, rejected>>

\* Lines 58-63: one lookup of the fan-out rejects; allSettled keeps waiting.
LookupRejected ==
    /\ pc = "lookups"
    /\ \E i \in 1..Len(lookups) :
        /\ lookups[i].state = "pending"
        /\ lookups' = [lookups EXCEPT ![i].state = "rejected"]
        /\ settleOrder' = Append(settleOrder, i)
    /\ UNCHANGED <<tx, pc, txAnnotation, block, baseAssetBalance, toName, accountAddresses,
                   sources, calls, rejected>>

\* The place in the settle order of the lookup of an address; one past the
\* end for an address that was not looked up.
SettlePosition(address) ==
    LET at == {k \in 1..Len(settleOrder) : lookups[settleOrder[k]].address = address}
    IN IF at = {} THEN Len(settleOrder) + 1 ELSE CHOOSE k \in at : TRUE

RECURSIVE BySettlePosition(_, _)
\* The sub-annotations in the order their recipients' lookups settled, from
\* settle position k on.
BySettlePosition(subs, k) ==
    IF k > Len(settleOrder) + 1 THEN <<>>
    ELSE SelectSeq(subs, LAMBDA sub : SettlePosition(sub.recipientAddress) = k)
            \o BySettlePosition(subs, k + 1)

\* A variant of lines 54-109 that emits each sub-annotation when the lookup
\* of its recipient settles, instead of after all of them.
AllSettled_InSettleOrder ==
    /\ pc = "lookups"
    /\ AllSettledNow(lookups)
    /\ txAnnotation' =
        AttachSubannotations(txAnnotation,
            BySettlePosition(
                Subannotations(Get(tx.logs), CachedAssets, lookups,
                               txAnnotation.timestamp, block), 1))
    /\ sources' = SubannotationSources(Get(tx.logs), CachedAssets)
    /\ pc' = "done"
    /\ UNCHANGED <<tx, block, baseAssetBalance, toName, accountAddresses, lookups,
                   settleOrder, calls, rejected>>

\* Lines 54-109 and 312-317: every lookup has settled; the names are
\* collected, the sub-annotations built and attached, the annotation returned.
AllSettled ==
    /\ pc = "lookups"
    /\ AllSettledNow(lookups)
    /\ txAnnotation' =
        AttachSubannotations(txAnnotation,
            Subannotations(Get(tx.logs), CachedAssets, lookups,
                           txAnnotation.timestamp, block))
    /\ sources' = SubannotationSources(Get(tx.logs), CachedAssets)
    /\ pc' = "done"
    /\ UNCHANGED <<tx, block, baseAssetBalance, toName, accountAddresses, lookups,
                   settleOrder, calls, rejected>>

Next ==
    \/ CheckRequest
    \/ BalanceFulfilled
    \/ BalanceRejected
    \/ CheckMined
    \/ BlockFulfilled
    \/ BlockRejected
    \/ Classify
    \/ AssetsFulfilled
    \/ AssetsRejected
    \/ NameFulfilled
    \/ NameRejected
    \/ CheckLogs
    \/ LogAssetsFulfilled
    \/ LogAssetsRejected
    \/ AccountsFulfilled
    \/ AccountsRejected
    \/ LookupFulfilled
    \/ LookupRejected
    \/ AllSettled

\* Every transaction shape, with at most one log.
Spec == Init /\ [][Next]_vars

\* A few transaction shapes, with every log list of at most MaxLogs logs.
SpecLogs == InitLogs /\ [][Next]_vars

\* The run has returned its annotation.
Returned == pc = "done"

(***************************************************************************)
(* Vocabulary of the properties.                                           *)
(***************************************************************************)
HasWarning(annotation, w) ==
    /\ IsSome(annotation.warnings)
    /\ w \in Range(Get(annotation.warnings))

\* The transaction carries a gas limit and both fee fields, whatever their
\* values.
CarriesFeeFields ==
    IsSome(tx.gasLimit) /\ IsSome(tx.maxFeePerGas) /\ IsSome(tx.maxPriorityFeePerGas)

\* The balances the sender may have in a run: the one the chain service
\* reported, or any balance when the run never asked for it.
SenderBalances ==
    IF IsSome(baseAssetBalance) THEN {Get(baseAssetBalance)} ELSE 0..MaxBalance

\* The sub-annotations of the returned annotation, <<>> when none is attached.
AttachedSubannotations == OrElse(txAnnotation.subannotations, <<>>)

\* Transfer t touches one of the tracked accounts, case-insensitively.
TouchesTracked(t) ==
    \E a \in Range(Get(accountAddresses)) :
        \/ normalizeEVMAddress(t.senderAddress) = normalizeEVMAddress(a)
        \/ normalizeEVMAddress(t.recipientAddress) = normalizeEVMAddress(a)

\* The run went through annotationsFromLogs and returned.
ReturnedWithLogs == Returned /\ IsSome(tx.logs) /\ IsSome(accountAddresses)

\* Sub-annotation i was built from transfer sources[i].
SourcesMatch ==
    /\ Len(sources) = Len(AttachedSubannotations)
    /\ \A i \in 1..Len(sources) :
        /\ AttachedSubannotations[i].assetAmount.amount = sources[i].amount
        /\ AttachedSubannotations[i].senderAddress = sources[i].senderAddress
        /\ AttachedSubannotations[i].recipientAddress = sources[i].recipientAddress
        /\ Get(tx.logs)[sources[i].index].amount = sources[i].amount

\* The log a sub-annotation came from is a wrapped-asset event.
IsWrappedSource(i) == Get(tx.logs)[sources[i].index].topic \in {"Deposit", "Withdrawal"}

(***************************************************************************)
(* C1: for a request that carries gasLimit, maxFeePerGas and               *)
(* maxPriorityFeePerGas, and every sender balance, the returned warnings   *)
(* contain insufficient-funds if and only if                               *)
(* gasLimit * maxFeePerGas + value > balance.                              *)
(***************************************************************************)
C1_InsufficientFundsIffExceeds ==
    (Returned /\ CarriesFeeFields) =>
        \A balance \in SenderBalances :
            HasWarning(txAnnotation, "insufficient-funds")
                <=> (Get(tx.gasLimit) * Get(tx.maxFeePerGas) + OrElse(tx.value, 0)
                        > balance)

(***************************************************************************)
(* C2: every attached sub-annotation comes from a transfer whose sender or *)
(* recipient is a tracked account.                                         *)
(***************************************************************************)
C2_SubannotationsTouchTracked ==
    ReturnedWithLogs =>
        /\ SourcesMatch
        /\ \A i \in 1..Len(sources) : TouchesTracked(sources[i])

C4_NameRejectionAbsorbed == ~(pc = "thrown" /\ rejected = "name")

(***************************************************************************)
(* C5: a failed balance fetch or block fetch is non-fatal: the run never   *)
(* ends with it thrown.                                                    *)
(***************************************************************************)
C5_FetchFailureAbsorbed == ~(pc = "thrown" /\ rejected \in {"balance", "block"})

(***************************************************************************)
(* C6: in the fan-out, one lookup per distinct recipient is issued and all *)
(* are awaited until settled; a lookup that rejects or has no result drops *)
(* no transfer: every catalog-matched transfer has its sub-annotation,     *)
(* with recipientName present exactly when a lookup of that address        *)
(* resolved to a name, whatever order the lookups settle in.               *)
(***************************************************************************)
\* The logs that are transfers of a contract-backed asset of the catalog.
CatalogTransferLogs ==
    {i \in 1..Len(Get(tx.logs)) :
        /\ Get(tx.logs)[i].topic \in {"Transfer", "Deposit", "Withdrawal"}
        /\ \E k \in 1..Len(CachedAssets) :
             /\ IsSome(CachedAssets[k].contractAddress)
             /\ normalizeEVMAddress(Get(CachedAssets[k].contractAddress))
                    = normalizeEVMAddress(Get(tx.logs)[i].contractAddress)}

\* The lookups that resolved the address, in any letter case, to a name.
NamedLookups(address) ==
    {i \in 1..Len(lookups) :
        /\ normalizeEVMAddress(lookups[i].address) = normalizeEVMAddress(address)
        /\ lookups[i].state = "fulfilled"
        /\ IsSome(lookups[i].name)}

C6_FanOutToleratesFailures ==
    ReturnedWithLogs =>
        /\ \A i, j \in 1..Len(lookups) :
            i # j => lookups[i].address # lookups[j].address
        /\ {lookups[i].address : i \in 1..Len(lookups)}
                = {t.recipientAddress :
                        t \in {u \in Range(TokenTransferLogs(Get(tx.logs))) :
                                    TouchesTracked(u)}}
        /\ \A i \in 1..Len(lookups) : lookups[i].state # "pending"
        /\ Len(settleOrder) = Len(lookups)
        /\ SourcesMatch
        /\ {sources[i].index : i \in 1..Len(sources)} = CatalogTransferLogs
        /\ Len(AttachedSubannotations) = Cardinality(CatalogTransferLogs)
        /\ \A i \in 1..Len(AttachedSubannotations) :
            LET sub == AttachedSubannotations[i]
            IN IF NamedLookups(sub.recipientAddress) = {}
               THEN sub.recipientName = None
               ELSE \E k \in NamedLookups(sub.recipientAddress) :
                        sub.recipientName = lookups[k].name

\* Two lookups, the second settled first, one rejected and one resolved to a
\* name: the transfer of the rejected one is attached without a name, the
\* other with its name.
C6_Witness ==
    /\ ReturnedWithLogs
    /\ Len(lookups) = 2
    /\ settleOrder = <<2, 1>>
    /\ lookups[1].state = "rejected"
    /\ lookups[2].state = "fulfilled" /\ IsSome(lookups[2].name)
    /\ Len(AttachedSubannotations) = 2
    /\ \E i, j \in 1..2 :
        /\ AttachedSubannotations[i].recipientName = None
        /\ AttachedSubannotations[j].recipientName = lookups[2].name

(***************************************************************************)
(* C7: a transaction without a recipient is returned as a                  *)
(* contract-deployment, whatever its other fields, and the primary         *)
(* classification issues no name lookup.                                   *)
(***************************************************************************)
C7_NoRecipientIsDeployment ==
    (Returned /\ ~IsSome(tx.to)) =>
        /\ txAnnotation.type = "contract-deployment"
        /\ calls.name = 0
        /\ toName = None

\* A deployment that carries call data that decodes to a transfer, a value,
\* fee fields, a block hash and logs.
C7_Witness ==
    /\ Returned
    /\ ~IsSome(tx.to)
    /\ txAnnotation.type = "contract-deployment"
    /\ tx.input.selector = "transfer"
    /\ IsSome(tx.value)
    /\ CarriesFeeFields
    /\ IsSome(tx.blockHash)
    /\ IsSome(tx.logs)

(***************************************************************************)
(* C8: with a recipient and empty or absent call data, the returned type   *)
(* is asset-transfer if and only if the value field is present, 0          *)
(* included; then the asset is the base asset, the amount the value, the   *)
(* sender and recipient those of the transaction. With the value absent it *)
(* is a contract-interaction named by the resolved recipient name.         *)
(***************************************************************************)
C8_NoDataTransferIffValuePresent ==
    (Returned /\ IsSome(tx.to) /\ tx.input.form \in {"undefined", "null", "0x"}) =>
        /\ txAnnotation.type = "asset-transfer" <=> IsSome(tx.value)
        /\ IsSome(tx.value) =>
            /\ Get(txAnnotation.assetAmount).asset = BaseAsset
            /\ Get(txAnnotation.assetAmount).amount = Get(tx.value)
            /\ txAnnotation.senderAddress = Some(tx.from)
            /\ txAnnotation.recipientAddress = tx.to
            /\ txAnnotation.recipientName = toName
        /\ ~IsSome(tx.value) =>
            /\ txAnnotation.type = "contract-interaction"
            /\ txAnnotation.contractName = toName
            /\ txAnnotation.assetAmount = None
        /\ toName \in {None, Some(ResolvedName(Get(tx.to)))}

\* A send of value 0 returned as an asset-transfer with the resolved name.
C8_Witness ==
    /\ Returned
    /\ IsSome(tx.to)
    /\ tx.input.form = "0x"
    /\ tx.value = Some(0)
    /\ txAnnotation.type = "asset-transfer"
    /\ IsSome(txAnnotation.recipientName)

(***************************************************************************)
(* C9: when the recipient matches a catalog asset, case-insensitively, and *)
(* the call data decodes to transfer or transferFrom, the returned type is *)
(* asset-transfer, the recipient is the decoded to, the sender the decoded *)
(* from when present and the transaction sender otherwise, the amount the  *)
(* decoded amount of the matched asset.                                    *)
(***************************************************************************)
\* The recipient is a contract-backed asset of the catalog and the call
\* data decodes to one of the calls named.
DecodesOnCatalogAsset(names) ==
    /\ IsSome(tx.to)
    /\ IsSome(MatchingFungibleAsset(CachedAssets, tx.to))
    /\ IsSome(parseERC20Tx(tx.input))
    /\ Get(parseERC20Tx(tx.input)).name \in names

C9_DecodedTransferFields ==
    (Returned /\ DecodesOnCatalogAsset({"transfer", "transferFrom"})) =>
        LET args == Get(parseERC20Tx(tx.input)).args
        IN /\ txAnnotation.type = "asset-transfer"
           /\ txAnnotation.recipientAddress = args.to
           /\ txAnnotation.senderAddress =
                IF IsSome(args.from) THEN args.from ELSE Some(tx.from)
           /\ Get(txAnnotation.assetAmount).amount = Get(args.amount)
           /\ Get(txAnnotation.assetAmount).asset
                = Get(MatchingFungibleAsset(CachedAssets, tx.to))

\* A transferFrom on the token, whose catalog entry is in another letter
\* case than the recipient, returned with the decoded from as sender.
C9_Witness ==
    /\ Returned
    /\ DecodesOnCatalogAsset({"transferFrom"})
    /\ tx.to # TokenAsset.contractAddress
    /\ txAnnotation.senderAddress = Some("0xcarol")
    /\ txAnnotation.senderAddress # Some(tx.from)

(***************************************************************************)
(* C10: the returned warnings contain send-to-token if and only if the     *)
(* transaction was classified as a token transfer from its call data and   *)
(* the decoded recipient is the transaction recipient, case-insensitively. *)
(***************************************************************************)
C10_SendToTokenIff ==
    Returned =>
        (HasWarning(txAnnotation, "send-to-token")
            <=> /\ DecodesOnCatalogAsset({"transfer", "transferFrom"})
                /\ normalizeEVMAddress(Get(Get(parseERC20Tx(tx.input)).args.to))
                        = normalizeEVMAddress(Get(tx.to)))

\* The warning on a transfer whose decoded recipient is the token address in
\* another letter case than the transaction recipient.
C10_Witness ==
    /\ Returned
    /\ HasWarning(txAnnotation, "send-to-token")
    /\ Get(parseERC20Tx(tx.input)).args.to # tx.to

(***************************************************************************)
(* C11: classifying the same transaction twice with the same collaborator  *)
(* responses yields the same annotation, whatever order the lookups settle *)
(* in: the returned annotation is a function of the transaction and of the *)
(* responses (the balance, the block, the resolved name, the tracked       *)
(* accounts and the outcome of each lookup), the timestamp taken as given. *)
(***************************************************************************)
\* The annotation the affordability check leaves, given the balance response.
CheckedOfResponses ==
    IF IsSome(baseAssetBalance) /\ ExceedsBalance(tx, Get(baseAssetBalance))
    THEN PushWarning(DefaultAnnotation, "insufficient-funds")
    ELSE DefaultAnnotation

\* The annotation determined by the transaction and the responses, from the
\* annotation the affordability check leaves. lookups holds the response of
\* each lookup at the place it was issued at; the settle order is not used.
AnnotationOfResponses(checked) ==
    LET mined == IF IsSome(tx.blockHash) /\ Get(tx.blockHash) # ""
                 THEN WithBlockTimestamp(checked, block)
                 ELSE checked
        classified == IF IsSome(tx.to)
                      THEN Annotate(mined, tx, toName)
                      ELSE AnnotateDeployment(mined)
    IN IF IsSome(tx.logs)
       THEN AttachSubannotations(classified,
                Subannotations(Get(tx.logs), CachedAssets, lookups,
                               classified.timestamp, block))
       ELSE classified

C11_AnnotationIsFunctionOfResponses ==
    Returned => txAnnotation = AnnotationOfResponses(CheckedOfResponses)

\* Two sub-annotations returned after their lookups settled in the reverse
\* of the order they were issued in, with different outcomes.
C11_Witness ==
    /\ ReturnedWithLogs
    /\ Len(AttachedSubannotations) = 2
    /\ settleOrder = <<2, 1>>
    /\ lookups[1].state # lookups[2].state
    /\ AttachedSubannotations[1].recipientAddress
            # AttachedSubannotations[2].recipientAddress

(***************************************************************************)
(* C12: when the recipient matches a catalog asset and the call data       *)
(* decodes to approve, the returned type is asset-approval, the spender is *)
(* the decoded spender, the spender name is the name resolved for the      *)
(* spender, not for the token contract, and the amount is the decoded      *)
(* allowance of the matched asset.                                         *)
(***************************************************************************)
C12_DecodedApprovalFields ==
    (Returned /\ DecodesOnCatalogAsset({"approve"})) =>
        LET args == Get(parseERC20Tx(tx.input)).args
        IN /\ txAnnotation.type = "asset-approval"
           /\ txAnnotation.spenderAddress = args.spender
           /\ txAnnotation.spenderName = toName
           /\ toName \in {None, Some(ResolvedName(Get(args.spender)))}
           /\ Get(txAnnotation.assetAmount).amount = Get(args.value)
           /\ Get(txAnnotation.assetAmount).asset
                = Get(MatchingFungibleAsset(CachedAssets, tx.to))

\* An approval on the token returned with the name of the spender, which is
\* not the name of the token contract.
C12_Witness ==
    /\ Returned
    /\ DecodesOnCatalogAsset({"approve"})
    /\ txAnnotation.type = "asset-approval"
    /\ txAnnotation.spenderName = Some("bob.eth")
    /\ txAnnotation.spenderName # Some(ResolvedName(Get(tx.to)))

(***************************************************************************)
(* C13: with a recipient and non-empty call data, when the recipient       *)
(* matches no catalog asset or the call data does not decode to transfer,  *)
(* transferFrom or approve, the returned type is contract-interaction with *)
(* the resolved recipient name as contract name, and the logo is attached  *)
(* exactly when the recipient matches a catalog asset that has one.        *)
(***************************************************************************)
\* The logo of the contract-backed catalog asset at the recipient, if any.
RecipientLogo ==
    LET at == {k \in 1..Len(CachedAssets) :
                /\ IsSome(CachedAssets[k].contractAddress)
                /\ normalizeEVMAddress(Get(CachedAssets[k].contractAddress))
                        = normalizeEVMAddress(Get(tx.to))}
    IN IF at = {} THEN None
       ELSE CachedAssets[CHOOSE k \in at : \A j \in at : k <= j].logoURL

C13_UnrecognizedCallIsInteraction ==
    (/\ Returned
     /\ IsSome(tx.to)
     /\ tx.input.form = "data"
     /\ ~DecodesOnCatalogAsset({"transfer", "transferFrom", "approve"})) =>
        /\ txAnnotation.type = "contract-interaction"
        /\ txAnnotation.contractName = toName
        /\ toName \in {None, Some(ResolvedName(Get(tx.to)))}
        /\ txAnnotation.transactionLogoURL = RecipientLogo
        /\ txAnnotation.assetAmount = None

\* A call with an unknown selector on the token, returned as an interaction
\* that carries the token's logo.
C13_Witness ==
    /\ Returned
    /\ tx.to = Some("0xtoken")
    /\ tx.input.selector = "other"
    /\ txAnnotation.type = "contract-interaction"
    /\ txAnnotation.transactionLogoURL = Some("tkn.png")
    /\ IsSome(txAnnotation.contractName)

(***************************************************************************)
(* C14: in the returned annotation and in every intermediate value of it,  *)
(* the type tag determines the populated fields: senderAddress,            *)
(* recipientAddress, recipientName and assetAmount only with               *)
(* asset-transfer or, for assetAmount, asset-approval; spenderAddress and  *)
(* spenderName only with asset-approval; contractName only with            *)
(* contract-interaction; contract-deployment carries none of them.         *)
(***************************************************************************)
C14_TypeDeterminesFields ==
    /\ txAnnotation.type \in {"contract-interaction", "contract-deployment",
                              "asset-transfer", "asset-approval"}
    /\ IsSome(txAnnotation.senderAddress) => txAnnotation.type = "asset-transfer"
    /\ IsSome(txAnnotation.recipientAddress) => txAnnotation.type = "asset-transfer"
    /\ IsSome(txAnnotation.recipientName) => txAnnotation.type = "asset-transfer"
    /\ IsSome(txAnnotation.assetAmount)
            => txAnnotation.type \in {"asset-transfer", "asset-approval"}
    /\ IsSome(txAnnotation.spenderAddress) => txAnnotation.type = "asset-approval"
    /\ IsSome(txAnnotation.spenderName) => txAnnotation.type = "asset-approval"
    /\ IsSome(txAnnotation.contractName) => txAnnotation.type = "contract-interaction"
    /\ txAnnotation.type = "asset-transfer" =>
        /\ IsSome(txAnnotation.senderAddress)
        /\ IsSome(txAnnotation.recipientAddress)
        /\ IsSome(txAnnotation.assetAmount)
    /\ txAnnotation.type = "asset-approval" =>
        /\ IsSome(txAnnotation.spenderAddress)
        /\ IsSome(txAnnotation.assetAmount)

\* A returned plain send with its name resolved: the transfer fields are
\* populated and no field of another type is.
C14_Witness ==
    /\ Returned
    /\ txAnnotation.type = "asset-transfer"
    /\ tx.input.form = "0x"
    /\ IsSome(txAnnotation.recipientName)
    /\ txAnnotation.contractName = None
    /\ txAnnotation.spenderAddress = None

(***************************************************************************)
(* C15: the affordability check does not change the type tag: the returned *)
(* annotation, apart from the presence of insufficient-funds among its     *)
(* warnings, is the one determined by the transaction without its gas      *)
(* limit and fee fields and by the responses other than the balance, so    *)
(* that two transactions that differ only in those return annotations that *)
(* differ at most in that warning.                                         *)
(***************************************************************************)
\* The annotation without insufficient-funds among its warnings; a warning
\* list left empty is absent.
WithoutInsufficientFunds(annotation) ==
    LET kept == SelectSeq(OrElse(annotation.warnings, <<>>),
                          LAMBDA w : w # "insufficient-funds")
    IN [annotation EXCEPT !.warnings = IF kept = <<>> THEN None ELSE Some(kept)]

C15_AffordabilityKeepsClassification ==
    Returned =>
        WithoutInsufficientFunds(txAnnotation) = AnnotationOfResponses(DefaultAnnotation)

\* A request the balance does not cover, returned as an asset-transfer with
\* the warning.
C15_Witness ==
    /\ Returned
    /\ CarriesFeeFields
    /\ IsSome(baseAssetBalance)
    /\ HasWarning(txAnnotation, "insufficient-funds")
    /\ txAnnotation.type = "asset-transfer"
    /\ IsSome(txAnnotation.assetAmount)

(***************************************************************************)
(* C16: a transfer found in the logs whose contract matches no             *)
(* contract-backed fungible asset of the catalog yields no sub-annotation, *)
(* every sub-annotation has type asset-transfer with the matched asset,    *)
(* and the subannotations field is absent or a non-empty list, never an    *)
(* empty list.                                                             *)
(***************************************************************************)
\* The contract-backed catalog assets at the address, in any letter case.
CatalogAssetsAt(address) ==
    {CachedAssets[k] : k \in {j \in 1..Len(CachedAssets) :
        /\ IsSome(CachedAssets[j].contractAddress)
        /\ normalizeEVMAddress(Get(CachedAssets[j].contractAddress))
                = normalizeEVMAddress(address)}}

C16_OnlyCatalogTransfersAnnotated ==
    /\ txAnnotation.subannotations # Some(<<>>)
    /\ ReturnedWithLogs =>
        /\ SourcesMatch
        /\ \A i \in 1..Len(sources) :
            /\ CatalogAssetsAt(Get(tx.logs)[sources[i].index].contractAddress) # {}
            /\ AttachedSubannotations[i].type = "asset-transfer"
            /\ AttachedSubannotations[i].assetAmount.asset
                    \in CatalogAssetsAt(Get(tx.logs)[sources[i].index].contractAddress)
        /\ (\A i \in 1..Len(Get(tx.logs)) :
                CatalogAssetsAt(Get(tx.logs)[i].contractAddress) = {})
            => txAnnotation.subannotations = None

\* A returned run whose only log is a transfer, with a tracked sender, of a
\* contract the catalog does not hold: no sub-annotation list is attached.
C16_Witness ==
    /\ ReturnedWithLogs
    /\ Len(Get(tx.logs)) = 1
    /\ Get(tx.logs)[1].topic = "Transfer"
    /\ Get(tx.logs)[1].contractAddress = "0xdead"
    /\ TouchesTracked([senderAddress |-> Get(tx.logs)[1].src,
                       recipientAddress |-> Get(tx.logs)[1].dst])
    /\ txAnnotation.subannotations = None

(***************************************************************************)
(* C17: with a block hash and a fulfilled block fetch the returned         *)
(* annotation carries the timestamp of the fetched block in every          *)
(* classification branch; without a block hash the block timestamp is      *)
(* absent and getBlockData is never called.                                *)
(***************************************************************************)
C17_BlockTimestampIffMined ==
    /\ ~IsSome(tx.blockHash) => calls.block = 0 /\ block = None
    /\ Returned =>
        IF IsSome(tx.blockHash)
        THEN /\ IsSome(block)
             /\ txAnnotation.blockTimestamp = Some(Get(block).timestamp)
             /\ txAnnotation.type \in {"contract-deployment", "asset-transfer",
                                       "asset-approval", "contract-interaction"}
        ELSE txAnnotation.blockTimestamp = None

\* A mined approval is returned with the timestamp of its block.
C17_Witness ==
    /\ Returned
    /\ IsSome(tx.blockHash)
    /\ calls.block = 1
    /\ txAnnotation.type = "asset-approval"
    /\ txAnnotation.blockTimestamp = Some(BlockTimestamp)

(***************************************************************************)
(* C18: every attached sub-annotation carries the creation timestamp and   *)
(* the block timestamp of the annotation it is attached to, the block      *)
(* timestamps being both absent when the transaction has no block hash.    *)
(***************************************************************************)
C18_SubannotationsShareTimestamps ==
    ReturnedWithLogs =>
        \A i \in 1..Len(AttachedSubannotations) :
            /\ AttachedSubannotations[i].timestamp = txAnnotation.timestamp
            /\ AttachedSubannotations[i].blockTimestamp = txAnnotation.blockTimestamp
            /\ ~IsSome(tx.blockHash) =>
                    AttachedSubannotations[i].blockTimestamp = None

\* A mined transaction is returned with two sub-annotations.
C18_Witness ==
    /\ ReturnedWithLogs
    /\ Len(AttachedSubannotations) = 2
    /\ IsSome(tx.blockHash)
    /\ txAnnotation.blockTimestamp = Some(BlockTimestamp)
    /\ txAnnotation.timestamp = Now

\* A transaction without block hash is returned with a sub-annotation.
C18_WitnessNoBlock ==
    /\ ReturnedWithLogs
    /\ Len(AttachedSubannotations) > 0
    /\ ~IsSome(tx.blockHash)

(***************************************************************************)
(* C19: no collaborator call is retried.  In one run the balance fetch and *)
(* the block fetch are issued at most once each, the primary               *)
(* classification issues at most one name lookup (exactly one when a       *)
(* recipient is present, none for a contract deployment), whether the      *)
(* lookup is fulfilled or rejected; the balance fetch has completed when   *)
(* the block fetch is issued, and both have completed when the name        *)
(* lookup is issued.                                                       *)
(***************************************************************************)
\* The run has reached the name lookup of the primary classification, or
\* has gone past it.
ClassificationIssued ==
    \/ pc \in {"name", "logs", "log-assets", "accounts", "lookups", "done"}
    \/ pc = "thrown" /\ rejected \in {"name", "accounts"}

C19_NoCallIsRetried ==
    /\ calls.balance <= 1
    /\ calls.block <= 1
    /\ calls.name <= 1
    /\ IsContractDeployment(tx) => calls.name = 0
    /\ ClassificationIssued =>
            calls.name = (IF IsSome(tx.to) THEN 1 ELSE 0)
    /\ calls.block >= 1 /\ calls.balance >= 1 => IsSome(baseAssetBalance)
    /\ calls.name >= 1 =>
        /\ calls.balance >= 1 => IsSome(baseAssetBalance)
        /\ calls.block >= 1 => IsSome(block)

\* The balance, the block and the name were asked for once each, in that
\* order, and the name lookup rejected.
C19_Witness ==
    /\ pc = "thrown"
    /\ rejected = "name"
    /\ calls.balance = 1
    /\ calls.block = 1
    /\ calls.name = 1
    /\ IsSome(baseAssetBalance)
    /\ IsSome(block)

====
